---- MODULE Spec2Model ----
(***************************************************************************)
(* Verification model of the yt-channel-analytics scripts:                 *)
(*   cleanup_audio.py                       - SpecCleanup                  *)
(*   batch_stt.py, batch_sst.py, stt_whisper.py - SpecBatch                *)
(*   backfill_comments.py                   - SpecGetComments, SpecBackfill*)
(*   youtube_channel_data_collector.py,                                    *)
(*   youtube_video_preference_predictor.py  - SpecCollector                *)
(*   denoiser.py                            - SpecDenoiser                 *)
(* File names are modelled as pairs <<stem, suffix>>, a directory as the   *)
(* set of the names it holds.                                              *)
(***************************************************************************)
EXTENDS Integers, Sequences, FiniteSets, TLC

\* ---------------------------------------------------------------- bounds
NumAudio == 2          \* video ids that may have files in data/tmp
NumVideos == 3         \* longest video id list handed to a batch run
MaxWorkers == 2        \* largest --workers value explored
NumFiles == 2          \* JSON files in the comments directory
MaxResultsBound == 103 \* largest max_results handed to get_comments
NumCoVideos == 3       \* most videos in the uploads playlist of the channel
MaxPathLen == 3        \* longest input path handed to the denoiser, in tokens

VARIABLES
  \* ---- the file system shared by the scripts
  audio_dir_exists,      \* data/tmp exists
  transcript_dir_exists, \* data/chimchakman_official_transcripts exists
  audioDir,              \* names in data/tmp
  transcriptDir,         \* names in the transcript (output) directory
  \* ---- cleanup_audio.cleanup_processed_audio
  cl_pc,                 \* "start" | "loop" | "done"
  audio_files,           \* glob snapshot still to be examined
  deleted, kept,         \* its counters
  cl_audio0              \* history: data/tmp when the call began

VARIABLES
  \* ---- batch_sst.py / batch_stt.py
  tool,                  \* "sst" | "stt": which CLI is running
  videos_json,           \* "missing" | "invalid" | "list": the --videos file
  json_ids,              \* the video ids that file lists
  max_workers,           \* self.max_workers
  shutdown_requested,    \* self.shutdown_requested (batch_stt)
  b_pc,                  \* position of the main thread
  pending_videos,        \* batch_stt: ids not yet submitted
  active_futures,        \* batch_stt: submitted, result not yet collected
  done_futures,          \* batch_stt: snapshot of line 267 still to handle
  initial_left,          \* batch_stt: iterations left of the loop of line 253
  fut,                   \* pool: id -> "none"|"queued"|"running"|"done"|"cancelled"
  res,                   \* pool: id -> what future.result() gives
  idx,                   \* batch_sst: enumerate index i
  completed,             \* batch_stt: completed
  stats,                 \* the stats dictionary
  errors,                \* stats['errors']: the 'error' values, in order
  ret,                   \* how process_batch ended
  exit_code,             \* status given to sys.exit, -1 while running
  \* ---- history
  existed_at_start,      \* ids whose transcript existed when their task started
  whisper_called,        \* ids passed to test_whisper_single_video
  counted,               \* id -> the counter it incremented
  last_submit,           \* the latest submission: its place in the code and
                         \* the system memory percent at that moment
  sigint_processing      \* a SIGINT arrived while videos were being processed

VARIABLES
  \* ---- backfill_comments.py
  files,                 \* the *.json files of comments_dir: their contents
  comments_dir_exists,   \* self.comments_dir exists
  bf_pc,                 \* "start" | "loop" | "fetch" | "save" | "done"
  bf_i,                  \* index of the file being handled
  backfilled, skipped, failed,   \* counters of backfill_all
  gc_pc,                 \* get_comments: "idle" | "loop" | "returned"
  gc_max_results,        \* get_comments: max_results
  gc_request,            \* get_comments: maxResults of the pending request, 0 = None
  gc_comments,           \* get_comments: len(comments)
  gc_failed,             \* history: request.execute() raised
  gc_last_token,         \* history: "none" | "yes" | "no", nextPageToken of
                         \* the latest response
  \* ---- history
  files0,                \* the files when backfill_all began
  api_called,            \* file ids for which request.execute() was called
  hit_error,             \* file ids whose backfill_file caught an exception
  fetch_failed,          \* file ids whose get_comments caught an exception
  returned_true          \* file ids for which backfill_file returned True

VARIABLES
  \* ---- youtube_channel_data_collector.py / youtube_video_preference_predictor.py
  co_prog,               \* "collector" | "predictor": which main is running
  co_args,               \* the parsed arguments
  co_uploads,            \* number of videos in the uploads playlist
  co_videos_file,        \* data/<slug>_videos.json: [kind, list]
  co_pc,                 \* position of main
  co_videos,             \* videos
  co_i,                  \* index of the loops of steps 3 and 4
  t_fut,                 \* thread pool: id -> "none"|"queued"|"running"|"done"
  t_res,                 \* thread pool: id -> what future.result() gives
  t_completed,           \* completed of fetch_transcripts_parallel
  co_transcript_files,   \* ids whose <id>_transcript.txt was written
  co_stats_files,        \* ids whose <id>_stats.json was written
  co_comments_files,     \* ids whose <id>_comments.json was written
  co_exit,               \* status given to sys.exit, -1 while running
  \* ---- history
  co_log,                \* the steps begun and ended, in order
  co_api_calls,          \* <<step, id>>: API calls made for a video by a step
  co_source,             \* "none" | "api" | "file": where videos came from
  t_handled,             \* id -> times the as_completed loop handled it
  t_reordered            \* as_completed yielded a video before an earlier one

VARIABLES
  \* ---- denoiser.py
  dn_pc,                 \* "idle" | "start" | "denoise" | "write" | "done"
  dn_fs,                 \* the files: a set of <<path, content>>
  dn_input_file,         \* input_file
  dn_aggressive,         \* aggressive
  dn_original_text,      \* original_text
  dn_denoised_text,      \* denoised_text
  dn_ret,                \* "running" | "None" | the returned output_file
  \* ---- history
  dn_fs0,                \* the files when process_file was called
  dn_fail                \* "none" | "read" | "open" | "write": what raised

fsVars == <<audio_dir_exists, transcript_dir_exists, audioDir, transcriptDir>>
clVars == <<cl_pc, audio_files, deleted, kept, cl_audio0>>
batchVars == <<tool, videos_json, json_ids, max_workers, shutdown_requested,
               b_pc, pending_videos, active_futures, done_futures,
               initial_left, fut, res, idx, completed, stats, errors, ret,
               exit_code, existed_at_start, whisper_called, counted,
               last_submit, sigint_processing>>
gcVars == <<gc_pc, gc_max_results, gc_request, gc_comments, gc_failed,
           gc_last_token>>
bfVars == <<files, comments_dir_exists, bf_pc, bf_i, backfilled, skipped,
            failed, files0, api_called, hit_error, fetch_failed,
            returned_true>>
coVars == <<co_prog, co_args, co_uploads, co_videos_file, co_pc, co_videos,
            co_i, t_fut, t_res, t_completed, co_transcript_files,
            co_stats_files, co_comments_files, co_exit, co_log, co_api_calls,
            co_source, t_handled, t_reordered>>
dnVars == <<dn_pc, dn_fs, dn_input_file, dn_aggressive, dn_original_text,
            dn_denoised_text, dn_ret, dn_fs0, dn_fail>>
vars == <<fsVars, clVars, batchVars, gcVars, bfVars, coVars, dnVars>>

\* ------------------------------------------------------------ file names
AudioSuffix == ".mp3"
TranscriptSuffix == "_whisper_transcript.txt"
AudioIds == 1..NumAudio
Videos == 1..NumVideos
CoVideos == 1..NumCoVideos

\* f"{video_id}_whisper_transcript.txt"
TranscriptName(video_id) == <<video_id, TranscriptSuffix>>
\* Path.stem of "<id>.mp3"
Stem(name) == name[1]
\* audio_dir.glob("*.mp3")
GlobMp3(dir) == {n \in dir : n[2] = AudioSuffix}

AudioNames == AudioIds \X {AudioSuffix, ".part"}
CleanupTranscriptNames == AudioIds \X {TranscriptSuffix, "_transcript.txt"}

\* ------------------------------------------- the scripts that are not run
CleanupIdle ==
  /\ audio_dir_exists = TRUE
  /\ audioDir = {}
  /\ cl_pc = "done"
  /\ audio_files = {}
  /\ deleted = 0
  /\ kept = 0
  /\ cl_audio0 = {}

BatchIdle ==
  /\ tool = "none"
  /\ videos_json = "missing"
  /\ json_ids = <<>>
  /\ max_workers = 1
  /\ shutdown_requested = FALSE
  /\ b_pc = "exited"
  /\ pending_videos = <<>>
  /\ active_futures = {}
  /\ done_futures = {}
  /\ initial_left = 0
  /\ fut = [v \in Videos |-> "none"]
  /\ res = [v \in Videos |-> "none"]
  /\ idx = 0
  /\ completed = 0
  /\ stats = [total |-> 0, success |-> 0, failed |-> 0, skipped |-> 0,
              memory_warnings |-> 0]
  /\ errors = <<>>
  /\ ret = "none"
  /\ exit_code = -1
  /\ existed_at_start = {}
  /\ whisper_called = {}
  /\ counted = [v \in Videos |-> "none"]
  /\ last_submit = [phase |-> "none", mem |-> -1]
  /\ sigint_processing = FALSE

GetCommentsIdle ==
  /\ gc_pc = "idle"
  /\ gc_max_results = 0
  /\ gc_request = 0
  /\ gc_comments = 0
  /\ gc_failed = FALSE
  /\ gc_last_token = "none"

BackfillIdle ==
  /\ files = <<>>
  /\ comments_dir_exists = FALSE
  /\ bf_pc = "done"
  /\ bf_i = 0
  /\ backfilled = 0
  /\ skipped = 0
  /\ failed = 0
  /\ files0 = files
  /\ api_called = {}
  /\ hit_error = {}
  /\ fetch_failed = {}
  /\ returned_true = {}


CollectorIdle ==
  /\ co_prog = "none"
  /\ co_args = [min_duration |-> 0, force_refresh |-> FALSE,
                skip_transcripts |-> FALSE, skip_stats |-> FALSE,
                skip_comments |-> FALSE, max_workers |-> 1]
  /\ co_uploads = 0
  /\ co_videos_file = [kind |-> "missing", list |-> <<>>]
  /\ co_pc = "exited"
  /\ co_videos = <<>>
  /\ co_i = 0
  /\ t_fut = [v \in CoVideos |-> "none"]
  /\ t_res = [v \in CoVideos |-> "none"]
  /\ t_completed = 0
  /\ co_transcript_files = {}
  /\ co_stats_files = {}
  /\ co_comments_files = {}
  /\ co_exit = -1
  /\ co_log = <<>>
  /\ co_api_calls = {}
  /\ co_source = "none"
  /\ t_handled = [v \in CoVideos |-> 0]
  /\ t_reordered = FALSE

DenoiserIdle ==
  /\ dn_pc = "idle"
  /\ dn_fs = {}
  /\ dn_input_file = <<>>
  /\ dn_aggressive = FALSE
  /\ dn_original_text = <<>>
  /\ dn_denoised_text = <<>>
  /\ dn_ret = "running"
  /\ dn_fs0 = {}
  /\ dn_fail = "none"

\* ===================================================== cleanup_audio.py
InitCleanup ==
  /\ audio_dir_exists \in BOOLEAN
  /\ transcript_dir_exists \in BOOLEAN
  /\ audioDir \in SUBSET AudioNames
  /\ transcriptDir \in SUBSET CleanupTranscriptNames
  /\ (~audio_dir_exists => audioDir = {})
  /\ (~transcript_dir_exists => transcriptDir = {})
  /\ cl_pc = "start"
  /\ audio_files = {}
  /\ deleted = 0
  /\ kept = 0
  /\ cl_audio0 = audioDir
  /\ BatchIdle
  /\ GetCommentsIdle
  /\ CollectorIdle
  /\ DenoiserIdle
  /\ BackfillIdle

\* lines 17-38: the directory checks and the glob
CleanupBegin ==
  /\ cl_pc = "start"
  /\ IF ~audio_dir_exists \/ ~transcript_dir_exists
       THEN /\ cl_pc' = "done"
            /\ audio_files' = {}
       ELSE /\ cl_pc' = "loop"
            /\ audio_files' = GlobMp3(audioDir)
  /\ UNCHANGED <<fsVars, deleted, kept, cl_audio0, batchVars, coVars, dnVars, gcVars, bfVars>>

\* transcript_file.exists() of line 47 replaced by a check that always succeeds
TranscriptExistsAlways(dir, video_id) == TRUE

\* transcript_file.exists() of line 47
TranscriptExists(dir, video_id) == TranscriptName(video_id) \in dir

\* lines 40-56: one iteration of the loop over the snapshot
CleanupExamine ==
  /\ cl_pc = "loop"
  /\ \E audio_file \in audio_files :
       LET video_id == Stem(audio_file) IN
       /\ audio_files' = audio_files \ {audio_file}
       /\ IF TranscriptExists(transcriptDir, video_id)
            THEN /\ audioDir' = audioDir \ {audio_file}
                 /\ deleted' = deleted + 1
                 /\ kept' = kept
            ELSE /\ kept' = kept + 1
                 /\ UNCHANGED <<audioDir, deleted>>
  /\ UNCHANGED <<audio_dir_exists, transcript_dir_exists, transcriptDir,
                 cl_pc, cl_audio0, batchVars, coVars, dnVars, gcVars, bfVars>>

\* lines 58-65: the loop is exhausted, the summary is printed
CleanupEnd ==
  /\ cl_pc = "loop"
  /\ audio_files = {}
  /\ cl_pc' = "done"
  /\ UNCHANGED <<fsVars, audio_files, deleted, kept, cl_audio0, batchVars, coVars, dnVars,
                 gcVars, bfVars>>

\* a batch run finishes a video while the cleanup is running
\* (stt_whisper.py lines 117-123 write the transcript file)
TranscriptWritten ==
  /\ cl_pc = "loop"
  /\ transcript_dir_exists
  /\ \E v \in AudioIds :
       /\ TranscriptName(v) \notin transcriptDir
       /\ transcriptDir' = transcriptDir \cup {TranscriptName(v)}
  /\ UNCHANGED <<audio_dir_exists, transcript_dir_exists, audioDir, clVars,
                 batchVars, coVars, dnVars, gcVars, bfVars>>

NextCleanup == CleanupBegin \/ CleanupExamine \/ CleanupEnd \/ TranscriptWritten

SpecCleanup == InitCleanup /\ [][NextCleanup]_vars

\* C1: cleanup_processed_audio deletes data/tmp/<id>.mp3 only if
\* <id>_whisper_transcript.txt exists when it is examined; every audio file
\* without such a transcript still exists after the call; a missing audio or
\* transcript directory makes the call delete nothing.
C1_DeletesOnlyTranscribed ==
  /\ \A n \in cl_audio0 \ audioDir :
       /\ n[2] = AudioSuffix
       /\ TranscriptName(Stem(n)) \in transcriptDir
  /\ deleted = Cardinality(cl_audio0 \ audioDir)
  /\ (cl_pc = "done" /\ (~audio_dir_exists \/ ~transcript_dir_exists))
        => (audioDir = cl_audio0 /\ deleted = 0)

\* a finished call that deleted one audio file and kept another one, whose
\* transcript is missing
C1_Witness ==
  /\ cl_pc = "done"
  /\ deleted >= 1
  /\ kept >= 1
  /\ \E n \in audioDir :
       n[2] = AudioSuffix /\ TranscriptName(Stem(n)) \notin transcriptDir

\* ========================================= batch_stt.py and batch_sst.py
memory_threshold == 85       \* BatchWhisperProcessor.memory_threshold
WrapperMemoryLimit == 90     \* the limit of process_video_wrapper
MemoryCheckEvery == 5        \* "if completed % 5 == 0"
InitialBatchFactor == 2      \* "self.max_workers * 2"
\* system memory percent readings: below both limits, between them, above
MemLevels == {80, 88, 95}

Min(a, b) == IF a < b THEN a ELSE b
MinOf(S) == CHOOSE x \in S : \A y \in S : x <= y

IdList(k) == [i \in 1..k |-> i]

InitBatch ==
  /\ tool \in {"sst", "stt"}
  /\ audio_dir_exists = TRUE
  /\ transcript_dir_exists = TRUE
  /\ audioDir = {}
  /\ transcriptDir \in SUBSET {TranscriptName(v) : v \in Videos}
  /\ cl_pc = "done"
  /\ audio_files = {}
  /\ deleted = 0
  /\ kept = 0
  /\ cl_audio0 = {}
  /\ videos_json \in {"missing", "invalid", "list"}
  /\ json_ids \in {IdList(k) : k \in 0..NumVideos}
  /\ (videos_json # "list" => json_ids = <<>>)
  /\ max_workers \in (IF tool = "sst" THEN {1} ELSE 1..MaxWorkers)
  /\ shutdown_requested = FALSE
  /\ b_pc = "start"
  /\ pending_videos = <<>>
  /\ active_futures = {}
  /\ done_futures = {}
  /\ initial_left = 0
  /\ fut = [v \in Videos |-> "none"]
  /\ res = [v \in Videos |-> "none"]
  /\ idx = 0
  /\ completed = 0
  /\ stats = [total |-> 0, success |-> 0, failed |-> 0, skipped |-> 0,
              memory_warnings |-> 0]
  /\ errors = <<>>
  /\ ret = "none"
  /\ exit_code = -1
  /\ existed_at_start = {}
  /\ whisper_called = {}
  /\ counted = [v \in Videos |-> "none"]
  /\ last_submit = [phase |-> "none", mem |-> -1]
  /\ sigint_processing = FALSE
  /\ GetCommentsIdle
  /\ CollectorIdle
  /\ DenoiserIdle
  /\ BackfillIdle

notBatch == <<audio_dir_exists, transcript_dir_exists, audioDir, clVars,
              gcVars, bfVars, coVars, dnVars>>
batchInput == <<tool, videos_json, json_ids, max_workers>>

\* load_video_ids: a missing or unreadable file gives the empty list
load_video_ids == IF videos_json = "list" THEN json_ids ELSE <<>>

\* is_already_processed / the check of process_video_wrapper, replaced by a
\* check that never finds the transcript
IsAlreadyProcessedNever(dir, video_id) == FALSE

\* batch_sst.is_already_processed and lines 59-60 of process_video_wrapper
is_already_processed(dir, video_id) == TranscriptName(video_id) \in dir

\* the classification of a result: lines 279-292 (batch_stt), 206-216 (batch_sst)
Classify(r) ==
  IF r = "skipped" THEN "skipped"
  ELSE IF r = "success" THEN "success"
  ELSE "failed"

\* the 'error' value of a failed result: None when test_whisper_single_video
\* returned False, a message otherwise
ErrorOf(r) == IF r = "false" THEN "None" ELSE "str"

\* check_system_resources replaced by a check that always passes
CheckSystemResourcesAlways(system_percent) == TRUE

\* check_system_resources: False when the reading is above the threshold
check_system_resources(system_percent) == ~(system_percent > memory_threshold)

\* the exit status with the test on the failed count dropped
ExitStatusNoFailed(how, st) ==
  IF how = "KeyboardInterrupt" THEN 130
  ELSE IF how = "TypeError" THEN 1
  ELSE 0

\* main: the status given to sys.exit
ExitStatus(how, st) ==
  IF how = "KeyboardInterrupt" THEN 130
  ELSE IF how = "TypeError" THEN 1
  ELSE IF how = "stats" /\ st.failed > 0 THEN 1
  ELSE 0

\* ---------------------------------------------------------- batch_sst.py
\* process_batch lines 173-197
SstBegin ==
  /\ tool = "sst"
  /\ b_pc = "start"
  /\ IF load_video_ids = <<>>
       THEN /\ ret' = "empty"
            /\ b_pc' = "returned"
            /\ UNCHANGED <<stats, idx>>
       ELSE /\ stats' = [stats EXCEPT !.total = Len(load_video_ids)]
            /\ idx' = 1
            /\ b_pc' = "loophead"
            /\ ret' = ret
  /\ UNCHANGED <<notBatch, transcriptDir, batchInput, shutdown_requested,
                 pending_videos, active_futures, done_futures, initial_left,
                 fut, res, completed, errors, exit_code, existed_at_start,
                 whisper_called, counted, last_submit, sigint_processing>>

\* lines 200-201: the for statement and the progress print, outside the try
SstLoopHead ==
  /\ tool = "sst"
  /\ b_pc = "loophead"
  /\ b_pc' = IF idx > Len(load_video_ids) THEN "report" ELSE "single"
  /\ UNCHANGED <<notBatch, transcriptDir, batchInput, shutdown_requested,
                 pending_videos, active_futures, done_futures, initial_left,
                 fut, res, idx, completed, stats, errors, ret, exit_code,
                 existed_at_start, whisper_called, counted, last_submit, sigint_processing>>

\* process_single_video lines 117-131, and lines 206-207 for a skipped video
SstSingleStart ==
  /\ tool = "sst"
  /\ b_pc = "single"
  /\ LET video_id == load_video_ids[idx] IN
     /\ existed_at_start' =
          IF TranscriptName(video_id) \in transcriptDir
            THEN existed_at_start \cup {video_id} ELSE existed_at_start
     /\ IF is_already_processed(transcriptDir, video_id)
          THEN /\ stats' = [stats EXCEPT !.skipped = @ + 1]
               /\ counted' = [counted EXCEPT ![video_id] = "skipped"]
               /\ idx' = idx + 1
               /\ b_pc' = "loophead"
               /\ UNCHANGED whisper_called
          ELSE /\ whisper_called' = whisper_called \cup {video_id}
               /\ b_pc' = "whisper"
               /\ UNCHANGED <<stats, counted, idx>>
  /\ UNCHANGED <<notBatch, transcriptDir, batchInput, shutdown_requested,
                 pending_videos, active_futures, done_futures, initial_left,
                 fut, res, completed, errors, ret, exit_code, last_submit, sigint_processing>>

\* test_whisper_single_video returns or raises: lines 134-161 and 204-216
SstWhisperFinish ==
  /\ tool = "sst"
  /\ b_pc = "whisper"
  /\ LET video_id == load_video_ids[idx] IN
     \E r \in {"success", "false", "error"} :
       /\ transcriptDir' = IF r = "success"
                             THEN transcriptDir \cup {TranscriptName(video_id)}
                             ELSE transcriptDir
       /\ stats' = [stats EXCEPT ![Classify(r)] = @ + 1]
       /\ counted' = [counted EXCEPT ![video_id] = Classify(r)]
       \* line 212: appended only when result.get('error') is set
       /\ errors' = IF r = "error" THEN Append(errors, ErrorOf(r)) ELSE errors
  /\ idx' = idx + 1
  /\ b_pc' = "loophead"
  /\ UNCHANGED <<notBatch, batchInput, shutdown_requested, pending_videos,
                 active_futures, done_futures, initial_left, fut, res,
                 completed, ret, exit_code, existed_at_start, whisper_called,
                 last_submit, sigint_processing>>

\* Ctrl+C while process_single_video runs: re-raised at line 154, caught at
\* line 218, which leaves the loop
SstInterruptInTry ==
  /\ tool = "sst"
  /\ b_pc \in {"single", "whisper"}
  /\ sigint_processing' = TRUE
  /\ b_pc' = "report"
  /\ UNCHANGED <<notBatch, transcriptDir, batchInput, shutdown_requested,
                 pending_videos, active_futures, done_futures, initial_left,
                 fut, res, idx, completed, stats, errors, ret, exit_code,
                 existed_at_start, whisper_called, counted, last_submit>>

\* Ctrl+C at a statement of process_batch outside the try of line 203:
\* the KeyboardInterrupt leaves process_batch
SstInterruptOutside ==
  /\ tool = "sst"
  /\ b_pc \in {"start", "loophead", "report"}
  /\ ret' = "KeyboardInterrupt"
  /\ b_pc' = "returned"
  /\ UNCHANGED <<notBatch, transcriptDir, batchInput, shutdown_requested,
                 pending_videos, active_futures, done_futures, initial_left,
                 fut, res, idx, completed, stats, errors, exit_code,
                 existed_at_start, whisper_called, counted, last_submit, sigint_processing>>

\* lines 230-251: the summary, then "return stats"
SstReport ==
  /\ tool = "sst"
  /\ b_pc = "report"
  /\ ret' = "stats"
  /\ b_pc' = "returned"
  /\ UNCHANGED <<notBatch, transcriptDir, batchInput, shutdown_requested,
                 pending_videos, active_futures, done_futures, initial_left,
                 fut, res, idx, completed, stats, errors, exit_code,
                 existed_at_start, whisper_called, counted, last_submit, sigint_processing>>

\* main of both CLIs: batch_sst lines 317-328, batch_stt lines 418-431
MainExit ==
  /\ tool \in {"sst", "stt"}
  /\ b_pc = "returned"
  /\ exit_code' = ExitStatus(ret, stats)
  /\ b_pc' = "exited"
  /\ UNCHANGED <<notBatch, transcriptDir, batchInput, shutdown_requested,
                 pending_videos, active_futures, done_futures, initial_left,
                 fut, res, idx, completed, stats, errors, ret,
                 existed_at_start, whisper_called, counted, last_submit, sigint_processing>>

\* ---------------------------------------------------------- batch_stt.py
ErrorsShown == 10            \* "stats['errors'][:10]"

Queued == {v \in Videos : fut[v] = "queued"}
Running == {v \in Videos : fut[v] = "running"}
\* the ids handed to executor.submit so far
Submitted == {v \in Videos : fut[v] # "none"}

\* process_batch lines 201-252
SttBegin ==
  /\ tool = "stt"
  /\ b_pc = "start"
  /\ IF load_video_ids = <<>>
       THEN /\ ret' = "empty"
            /\ b_pc' = "returned"
            /\ UNCHANGED <<stats, pending_videos, initial_left>>
       ELSE /\ stats' = [stats EXCEPT !.total = Len(load_video_ids)]
            /\ pending_videos' = load_video_ids
            /\ initial_left' = Min(max_workers * InitialBatchFactor,
                                   Len(load_video_ids))
            /\ b_pc' = "initial"
            /\ ret' = ret
  /\ UNCHANGED <<notBatch, transcriptDir, batchInput, shutdown_requested,
                 active_futures, done_futures, fut, res, idx, completed,
                 errors, exit_code, existed_at_start, whisper_called, counted,
                 last_submit, sigint_processing>>

\* lines 253-262: one iteration of the initial batch; no memory reading is
\* taken, mem is what the system memory usage is at that moment
SttInitialSubmit ==
  /\ tool = "stt"
  /\ b_pc = "initial"
  /\ initial_left > 0
  /\ IF pending_videos # <<>> /\ ~shutdown_requested
       THEN \E mem \in MemLevels :
              LET video_id == Head(pending_videos) IN
              /\ pending_videos' = Tail(pending_videos)
              /\ fut' = [fut EXCEPT ![video_id] = "queued"]
              /\ active_futures' = active_futures \cup {video_id}
              /\ last_submit' = [phase |-> "initial", mem |-> mem]
       ELSE UNCHANGED <<pending_videos, fut, active_futures, last_submit>>
  /\ initial_left' = initial_left - 1
  /\ b_pc' = IF initial_left = 1 THEN "while" ELSE "initial"
  /\ UNCHANGED <<notBatch, transcriptDir, batchInput, shutdown_requested,
                 done_futures, res, idx, completed, stats, errors, ret,
                 exit_code, existed_at_start, whisper_called, counted, sigint_processing>>

\* a pool worker takes the oldest queued task: process_video_wrapper lines
\* 50-82, up to the call of test_whisper_single_video
WorkerStart ==
  /\ tool = "stt"
  /\ Queued # {}
  /\ Cardinality(Running) < max_workers
  /\ LET video_id == MinOf(Queued) IN
     /\ existed_at_start' =
          IF TranscriptName(video_id) \in transcriptDir
            THEN existed_at_start \cup {video_id} ELSE existed_at_start
     /\ IF is_already_processed(transcriptDir, video_id)
          THEN /\ fut' = [fut EXCEPT ![video_id] = "done"]
               /\ res' = [res EXCEPT ![video_id] = "skipped"]
               /\ UNCHANGED whisper_called
          ELSE \E mem \in MemLevels :
                 IF mem > WrapperMemoryLimit
                   THEN /\ fut' = [fut EXCEPT ![video_id] = "done"]
                        /\ res' = [res EXCEPT ![video_id] = "error"]
                        /\ UNCHANGED whisper_called
                   ELSE /\ fut' = [fut EXCEPT ![video_id] = "running"]
                        /\ whisper_called' = whisper_called \cup {video_id}
                        /\ UNCHANGED res
  /\ UNCHANGED <<notBatch, transcriptDir, batchInput, shutdown_requested,
                 b_pc, pending_videos, active_futures, done_futures,
                 initial_left, idx, completed, stats, errors, ret, exit_code,
                 counted, last_submit, sigint_processing>>

\* test_whisper_single_video ends in the worker: lines 78-100; "raised" is a
\* future whose result() raises (the worker died)
WorkerFinish ==
  /\ tool = "stt"
  /\ \E video_id \in Running :
       \E r \in {"success", "false", "error", "raised"} :
         /\ transcriptDir' = IF r = "success"
                               THEN transcriptDir \cup {TranscriptName(video_id)}
                               ELSE transcriptDir
         /\ fut' = [fut EXCEPT ![video_id] = "done"]
         /\ res' = [res EXCEPT ![video_id] = r]
  /\ UNCHANGED <<notBatch, batchInput, shutdown_requested, b_pc,
                 pending_videos, active_futures, done_futures, initial_left,
                 idx, completed, stats, errors, ret, exit_code,
                 existed_at_start, whisper_called, counted, last_submit, sigint_processing>>

\* lines 265-267: the while test and the snapshot of the finished futures
SttLoopTop ==
  /\ tool = "stt"
  /\ b_pc = "while"
  /\ IF active_futures # {} /\ ~shutdown_requested
       THEN /\ done_futures' = {v \in active_futures : fut[v] = "done"}
            /\ b_pc' = "collect"
       ELSE /\ b_pc' = "after"
            /\ UNCHANGED done_futures
  /\ UNCHANGED <<notBatch, transcriptDir, batchInput, shutdown_requested,
                 pending_videos, active_futures, initial_left, fut, res, idx,
                 completed, stats, errors, ret, exit_code, existed_at_start,
                 whisper_called, counted, last_submit, sigint_processing>>

\* lines 269-320: the body of "for future in done_futures" for one future
SttCollectOne ==
  /\ tool = "stt"
  /\ b_pc = "collect"
  /\ done_futures # {}
  /\ LET future == MinOf(done_futures)
         r == res[future]
     IN
     /\ done_futures' = done_futures \ {future}
     /\ completed' = completed + 1
     /\ counted' = [counted EXCEPT ![future] = Classify(r)]
     /\ IF r = "raised"
          THEN \* lines 314-320: future.result() raised
               /\ stats' = [stats EXCEPT !.failed = @ + 1]
               /\ errors' = Append(errors, "str")
               /\ active_futures' = active_futures \ {future}
               /\ UNCHANGED <<pending_videos, fut, last_submit>>
          ELSE /\ errors' = IF Classify(r) = "failed"
                              THEN Append(errors, ErrorOf(r)) ELSE errors
               \* lines 295-301: the reading taken every fifth completion
               /\ \E warn \in (IF (completed + 1) % MemoryCheckEvery = 0
                                 THEN {m > memory_threshold : m \in MemLevels}
                                 ELSE {FALSE}) :
                    stats' = [stats EXCEPT
                                ![Classify(r)] = @ + 1,
                                !.memory_warnings = IF warn THEN @ + 1 ELSE @]
               \* lines 303-312: a new task for the one collected
               /\ IF pending_videos # <<>>
                    THEN \E mem \in MemLevels :
                      IF check_system_resources(mem)
                        THEN LET video_id == Head(pending_videos) IN
                             /\ pending_videos' = Tail(pending_videos)
                             /\ fut' = [fut EXCEPT ![video_id] = "queued"]
                             /\ active_futures' =
                                  (active_futures \ {future}) \cup {video_id}
                             /\ last_submit' =
                                  [phase |-> "loop", mem |-> mem]
                        ELSE /\ active_futures' = active_futures \ {future}
                             /\ UNCHANGED <<pending_videos, fut, last_submit>>
                    ELSE /\ active_futures' = active_futures \ {future}
                         /\ UNCHANGED <<pending_videos, fut, last_submit>>
  /\ UNCHANGED <<notBatch, transcriptDir, batchInput, shutdown_requested,
                 b_pc, initial_left, res, idx, ret, exit_code,
                 existed_at_start, whisper_called, sigint_processing>>

\* lines 322-324: the snapshot is exhausted, sleep and test again
SttCollectEnd ==
  /\ tool = "stt"
  /\ b_pc = "collect"
  /\ done_futures = {}
  /\ b_pc' = "while"
  /\ UNCHANGED <<notBatch, transcriptDir, batchInput, shutdown_requested,
                 pending_videos, active_futures, done_futures, initial_left,
                 fut, res, idx, completed, stats, errors, ret, exit_code,
                 existed_at_start, whisper_called, counted, last_submit, sigint_processing>>

\* lines 326-330: future.cancel() succeeds on futures the pool has not yet
\* taken, which may be any of the queued ones
SttAfterLoop ==
  /\ tool = "stt"
  /\ b_pc = "after"
  /\ IF shutdown_requested
       THEN \E c \in SUBSET (active_futures \cap Queued) :
              fut' = [v \in Videos |-> IF v \in c THEN "cancelled" ELSE fut[v]]
       ELSE UNCHANGED fut
  /\ b_pc' = "join"
  /\ UNCHANGED <<notBatch, transcriptDir, batchInput, shutdown_requested,
                 pending_videos, active_futures, done_futures, initial_left,
                 res, idx, completed, stats, errors, ret, exit_code,
                 existed_at_start, whisper_called, counted, last_submit, sigint_processing>>

\* the end of the with block of line 242: the executor waits for its tasks
SttJoin ==
  /\ tool = "stt"
  /\ b_pc = "join"
  /\ Queued = {}
  /\ Running = {}
  /\ b_pc' = "report"
  /\ UNCHANGED <<notBatch, transcriptDir, batchInput, shutdown_requested,
                 pending_videos, active_futures, done_futures, initial_left,
                 fut, res, idx, completed, stats, errors, ret, exit_code,
                 existed_at_start, whisper_called, counted, last_submit, sigint_processing>>

\* lines 341-366: the summary; error['error'][:100] raises TypeError on a
\* None error, which main catches at line 429
SttReport ==
  /\ tool = "stt"
  /\ b_pc = "report"
  /\ ret' = IF /\ stats.failed > 0
               /\ \E i \in 1..Min(Len(errors), ErrorsShown) : errors[i] = "None"
              THEN "TypeError" ELSE "stats"
  /\ b_pc' = "returned"
  /\ UNCHANGED <<notBatch, transcriptDir, batchInput, shutdown_requested,
                 pending_videos, active_futures, done_futures, initial_left,
                 fut, res, idx, completed, stats, errors, exit_code,
                 existed_at_start, whisper_called, counted, last_submit, sigint_processing>>

\* _signal_handler, lines 138-141: the first SIGINT or SIGTERM arrives
\* between two steps of the main thread (a later one changes nothing)
SttSignal ==
  /\ tool = "stt"
  /\ b_pc \notin {"returned", "exited"}
  /\ ~shutdown_requested
  /\ \E sig \in {"SIGINT", "SIGTERM"} :
       sigint_processing' = (sig = "SIGINT" /\ Running # {})
  /\ shutdown_requested' = TRUE
  /\ UNCHANGED <<notBatch, transcriptDir, batchInput, b_pc, pending_videos,
                 active_futures, done_futures, initial_left, fut, res, idx,
                 completed, stats, errors, ret, exit_code, existed_at_start,
                 whisper_called, counted, last_submit>>

NextBatch ==
  \/ SstBegin \/ SstLoopHead \/ SstSingleStart \/ SstWhisperFinish
  \/ SstInterruptInTry \/ SstInterruptOutside \/ SstReport \/ MainExit
  \/ SttBegin \/ SttInitialSubmit \/ WorkerStart \/ WorkerFinish
  \/ SttLoopTop \/ SttCollectOne \/ SttCollectEnd \/ SttAfterLoop \/ SttJoin
  \/ SttReport \/ SttSignal

SpecBatch == InitBatch /\ [][NextBatch]_vars

\* ------------------------------------------------ properties of the batch
Finished == b_pc \in {"returned", "exited"}

\* C2: in both batch processors a video whose transcript file already exists
\* in output_dir when its task starts is never passed to
\* test_whisper_single_video and is counted under 'skipped' only.
C2_ExistingTranscriptSkipped ==
  \A v \in existed_at_start :
    /\ v \notin whisper_called
    /\ counted[v] \in {"none", "skipped"}
    /\ (Finished /\ ret # "KeyboardInterrupt" /\ ~shutdown_requested
          /\ ~sigint_processing) => counted[v] = "skipped"

\* a finished batch_stt run that skipped one video and transcribed another
C2_Witness ==
  /\ tool = "stt"
  /\ b_pc = "exited"
  /\ \E v \in existed_at_start : counted[v] = "skipped"
  /\ \E v \in whisper_called : counted[v] = "success"

\* C3: in batch_stt, with no shutdown signal and no exception escaping the
\* pool, process_batch returns only after every video id was submitted and
\* its result collected: completed == stats['total'] and nothing is pending.
C3_ReturnsOnlyWhenAllCollected ==
  (tool = "stt" /\ b_pc = "returned" /\ ret = "stats" /\ ~shutdown_requested)
    => (completed = stats.total /\ pending_videos = <<>>)

\* C4 as stated: every submission of a process_batch run, the first ones
\* included, is made while the system memory usage is at or below
\* memory_threshold.
C4_EverySubmitUnderThreshold ==
  last_submit.phase # "none" => last_submit.mem <= memory_threshold

\* C4 as amended: every submission made from the collect loop (after the
\* initial batch) follows a memory reading at or below memory_threshold.
C4_LoopSubmitUnderThreshold ==
  last_submit.phase = "loop" => last_submit.mem <= memory_threshold

\* a video has just been submitted from the collect loop, in place of a
\* collected one
C4_Witness ==
  /\ last_submit.phase = "loop"
  /\ completed >= 1
  /\ Cardinality(Submitted) > completed

\* C5: in batch_stt, once a signal has set shutdown_requested, no further
\* video is submitted to the pool, wherever in the loop the signal arrives.
C5_NoSubmitAfterShutdown ==
  [][shutdown_requested => Submitted' = Submitted]_vars

\* C6 as stated: the batch CLIs exit with status 1 if and only if at least
\* one video was counted as failed, and with status 0 otherwise.
C6_ExitOneIffFailed ==
  b_pc = "exited" => exit_code = (IF stats.failed > 0 THEN 1 ELSE 0)

\* C6 as amended: the same, except that a KeyboardInterrupt that leaves
\* process_batch gives status 130 whatever the counts.
C6_ExitStatus ==
  b_pc = "exited" =>
    exit_code = (IF ret = "KeyboardInterrupt" THEN 130
                 ELSE IF stats.failed > 0 THEN 1 ELSE 0)

\* a run that skipped one video, failed another and exited with status 1
C6_Witness ==
  /\ b_pc = "exited"
  /\ exit_code = 1
  /\ stats.failed > 0
  /\ stats.skipped > 0

\* C7: a Ctrl+C that arrives while videos are being processed makes the
\* batch CLI exit with status 130.
C7_InterruptExits130 ==
  (b_pc = "exited" /\ sigint_processing) => exit_code = 130

\* ================================================= backfill_comments.py
ApiPageCap == 100            \* "min(..., 100)": the API's largest page
DefaultMaxResults == 100     \* get_comments(video_id, max_results=100)

\* the sizes of the page the API may answer a request with: never more than
\* the maxResults it was asked for
PageSizes(maxResults) == {0, maxResults \div 2, maxResults}

\* maxResults of a request, always the API's largest page
RequestSizeFixed(max_results, have) == ApiPageCap

\* maxResults of a request: lines 61 and 84
RequestSize(max_results, have) == Min(max_results - have, ApiPageCap)

\* lines 55-64: the call and the first request
GetCommentsCall(max_results) ==
  /\ gc_pc' = "loop"
  /\ gc_max_results' = max_results
  /\ gc_request' = RequestSize(max_results, 0)
  /\ gc_comments' = 0
  /\ gc_failed' = FALSE
  /\ gc_last_token' = "none"

\* lines 66-98: one test of the while condition and one pass of its body
GetCommentsIterate ==
  /\ gc_pc = "loop"
  /\ IF ~(gc_comments < gc_max_results)
       THEN /\ gc_pc' = "returned"
            /\ UNCHANGED <<gc_request, gc_comments, gc_failed, gc_last_token,
                           api_called, fetch_failed>>
       ELSE /\ api_called' = IF bf_pc = "fetch" THEN api_called \cup {bf_i}
                                                ELSE api_called
            /\ \/ \* request.execute() raises: lines 95-98
                  /\ gc_failed' = TRUE
                  /\ fetch_failed' = IF bf_pc = "fetch"
                                       THEN fetch_failed \cup {bf_i}
                                       ELSE fetch_failed
                  /\ gc_pc' = "returned"
                  /\ UNCHANGED <<gc_request, gc_comments, gc_last_token>>
               \/ \E items \in PageSizes(gc_request), token \in BOOLEAN :
                    LET have == gc_comments + items IN
                    /\ gc_comments' = have
                    /\ gc_last_token' = IF token THEN "yes" ELSE "no"
                    /\ IF token /\ have < gc_max_results
                         THEN /\ gc_request' = RequestSize(gc_max_results, have)
                              /\ gc_pc' = "loop"
                         ELSE /\ gc_pc' = "returned"
                              /\ UNCHANGED gc_request
                    /\ UNCHANGED <<gc_failed, fetch_failed>>
  /\ UNCHANGED <<fsVars, clVars, batchVars, coVars, dnVars, gc_max_results, files,
                 comments_dir_exists, bf_pc, bf_i, backfilled, skipped,
                 failed, files0, hit_error, returned_true>>

\* ------------------------------------------ get_comments called directly
InitGetComments ==
  /\ audio_dir_exists = TRUE
  /\ transcript_dir_exists = TRUE
  /\ transcriptDir = {}
  /\ CleanupIdle
  /\ BatchIdle
  /\ GetCommentsIdle
  /\ CollectorIdle
  /\ DenoiserIdle
  /\ BackfillIdle

GetCommentsDirect ==
  /\ bf_pc = "done"
  /\ gc_pc = "idle"
  /\ \E max_results \in 0..MaxResultsBound : GetCommentsCall(max_results)
  /\ UNCHANGED <<fsVars, clVars, batchVars, coVars, dnVars, bfVars>>

NextGetComments == GetCommentsDirect \/ GetCommentsIterate

SpecGetComments == InitGetComments /\ [][NextGetComments]_vars

\* C8: get_comments(video_id, max_results) returns at most max_results
\* comments whatever the number of pages, when no page holds more items than
\* the maxResults it was requested with; pagination stops as soon as
\* max_results comments are collected or no nextPageToken is returned.
C8_AtMostMaxResults ==
  /\ gc_comments <= gc_max_results
  /\ (gc_pc = "loop" /\ gc_last_token # "none")
        => (gc_comments < gc_max_results /\ gc_last_token = "yes")

\* a call that returned exactly max_results comments, collected over more
\* than one page with max_results above the API's page size
C8_Witness ==
  /\ gc_pc = "returned"
  /\ gc_max_results > ApiPageCap
  /\ gc_comments = gc_max_results
  /\ gc_request < ApiPageCap
  /\ ~gc_failed

\* ------------------------------------------- backfill_file, backfill_all
\* The content of a JSON file: kind "invalid" does not parse, "array" parses
\* to a list, "truncated" is what a failed json.dump leaves; for an object,
\* comments is the length of its 'comments' list (-1: no such key),
\* video_id is 0 when missing or empty, comment_count is -1 when missing.
NoJson(kind) == [kind |-> kind, comments |-> -1, video_id |-> 0,
                 comment_count |-> -1]
Contents ==
  {NoJson("invalid"), NoJson("array")} \cup
  {[kind |-> "object", comments |-> c, video_id |-> v,
    comment_count |-> IF c = -1 THEN -1 ELSE 2] :
     c \in {-1, 0, 2}, v \in {0, 1}}

\* needs_backfill replaced by a test that always asks for a backfill
NeedsBackfillAlways(data) == TRUE

\* needs_backfill, line 111 ('comments' is in no list, so an array needs one)
needs_backfill(data) == data.comments = -1 \/ data.comments = 0

\* lines 180-185 of backfill_all: the counter a result of backfill_file
\* increments; backfill_file returns True or False only
Tally(result) ==
  IF result = TRUE THEN "backfilled"
  ELSE IF result = FALSE THEN "skipped"
  ELSE "failed"

InitBackfill ==
  /\ audio_dir_exists = TRUE
  /\ transcript_dir_exists = TRUE
  /\ transcriptDir = {}
  /\ CleanupIdle
  /\ BatchIdle
  /\ GetCommentsIdle
  /\ CollectorIdle
  /\ DenoiserIdle
  /\ comments_dir_exists \in BOOLEAN
  /\ files \in UNION {[1..k -> Contents] : k \in 0..NumFiles}
  /\ (~comments_dir_exists => files = <<>>)
  /\ bf_pc = "start"
  /\ bf_i = 0
  /\ backfilled = 0
  /\ skipped = 0
  /\ failed = 0
  /\ files0 = files
  /\ api_called = {}
  /\ hit_error = {}
  /\ fetch_failed = {}
  /\ returned_true = {}

\* the counters after backfill_file returned result for a file
Count(result) ==
  /\ backfilled' = IF Tally(result) = "backfilled" THEN backfilled + 1
                                                    ELSE backfilled
  /\ skipped' = IF Tally(result) = "skipped" THEN skipped + 1 ELSE skipped
  /\ failed' = IF Tally(result) = "failed" THEN failed + 1 ELSE failed

\* backfill_all lines 158-173
BackfillBegin ==
  /\ bf_pc = "start"
  /\ IF ~comments_dir_exists \/ files = <<>>
       THEN bf_pc' = "done" /\ bf_i' = bf_i
       ELSE bf_pc' = "loop" /\ bf_i' = 1
  /\ UNCHANGED <<fsVars, clVars, batchVars, coVars, dnVars, gcVars, files,
                 comments_dir_exists, backfilled, skipped, failed, files0,
                 api_called, hit_error, fetch_failed, returned_true>>

\* backfill_all lines 175-178 and backfill_file lines 123-139: up to the
\* call of get_comments, or to the return that comes before it
BackfillFileStart ==
  /\ bf_pc = "loop"
  /\ bf_i <= Len(files)
  /\ LET data == files[bf_i] IN
     IF data.kind \in {"invalid", "truncated"}
       THEN \* json.load raises: lines 151-153
            /\ hit_error' = hit_error \cup {bf_i}
            /\ Count(FALSE)
            /\ bf_i' = bf_i + 1
            /\ UNCHANGED <<bf_pc, gcVars>>
     ELSE IF ~needs_backfill(data)
       THEN /\ Count(FALSE)
            /\ bf_i' = bf_i + 1
            /\ UNCHANGED <<bf_pc, gcVars, hit_error>>
     ELSE IF data.kind = "array"
       THEN \* data.get raises AttributeError: lines 151-153
            /\ hit_error' = hit_error \cup {bf_i}
            /\ Count(FALSE)
            /\ bf_i' = bf_i + 1
            /\ UNCHANGED <<bf_pc, gcVars>>
     ELSE IF data.video_id = 0
       THEN /\ Count(FALSE)
            /\ bf_i' = bf_i + 1
            /\ UNCHANGED <<bf_pc, gcVars, hit_error>>
     ELSE /\ GetCommentsCall(DefaultMaxResults)
          /\ bf_pc' = "fetch"
          /\ UNCHANGED <<bf_i, backfilled, skipped, failed, hit_error>>
  /\ UNCHANGED <<fsVars, clVars, batchVars, coVars, dnVars, files, comments_dir_exists,
                 files0, api_called, fetch_failed, returned_true>>

\* backfill_file lines 141-153 and backfill_all lines 180-187: get_comments
\* has returned; open(filepath, 'w') may fail and leave the file as it was,
\* json.dump may fail and leave it truncated
BackfillSave ==
  /\ bf_pc = "fetch"
  /\ gc_pc = "returned"
  /\ LET data == [files[bf_i] EXCEPT !.comments = gc_comments,
                                     !.comment_count = gc_comments] IN
     \E outcome \in {"saved", "open_fails", "dump_fails"} :
       /\ files' = [files EXCEPT ![bf_i] =
                      IF outcome = "saved" THEN data
                      ELSE IF outcome = "dump_fails" THEN NoJson("truncated")
                      ELSE @]
       /\ hit_error' = IF outcome = "saved" THEN hit_error
                                            ELSE hit_error \cup {bf_i}
       /\ returned_true' = IF outcome = "saved"
                             THEN returned_true \cup {bf_i} ELSE returned_true
       /\ Count(outcome = "saved")
  /\ bf_i' = bf_i + 1
  /\ bf_pc' = "loop"
  \* the locals of get_comments are gone
  /\ gc_pc' = "idle"
  /\ gc_max_results' = 0
  /\ gc_request' = 0
  /\ gc_comments' = 0
  /\ gc_failed' = FALSE
  /\ gc_last_token' = "none"
  /\ UNCHANGED <<fsVars, clVars, batchVars, coVars, dnVars, comments_dir_exists, files0,
                 api_called, fetch_failed>>

\* backfill_all lines 189-195: the summary
BackfillEnd ==
  /\ bf_pc = "loop"
  /\ bf_i > Len(files)
  /\ bf_pc' = "done"
  /\ UNCHANGED <<fsVars, clVars, batchVars, coVars, dnVars, gcVars, files,
                 comments_dir_exists, bf_i, backfilled, skipped, failed,
                 files0, api_called, hit_error, fetch_failed, returned_true>>

NextBackfill ==
  \/ BackfillBegin \/ BackfillFileStart \/ GetCommentsIterate
  \/ BackfillSave \/ BackfillEnd

SpecBackfill == InitBackfill /\ [][NextBackfill]_vars

\* C9: backfill_file leaves a file unchanged and makes no API call when the
\* file already has a non-empty 'comments' field or has no 'video_id'; only
\* files whose 'comments' field is missing or empty are ever rewritten, and
\* every rewritten file has comment_count equal to the length of its
\* comments list.
C9_BackfillFrame ==
  \A i \in 1..Len(files0) :
    /\ (files0[i].comments > 0 \/ files0[i].video_id = 0)
          => (files[i] = files0[i] /\ i \notin api_called)
    /\ files[i] # files0[i] => files0[i].comments \in {-1, 0}
    /\ i \in returned_true
          => /\ files[i].kind = "object"
             /\ files[i].comment_count = files[i].comments

\* a run that rewrote one file with the comments it fetched and left a file
\* that already had comments unchanged
C9_Witness ==
  /\ bf_pc = "done"
  /\ \E i \in returned_true :
       files[i].comments > 0 /\ files0[i].comment_count # files[i].comments
  /\ \E i \in 1..Len(files0) :
       files0[i].comments > 0 /\ files0[i].video_id # 0 /\ bf_i > i

\* C10: in the summary of backfill_all a file whose backfill hit an error is
\* counted under 'failed' and not under 'skipped'; 'skipped' counts only the
\* files that needed no backfill or had no video_id.
C10_ErrorsCountedFailed ==
  bf_pc = "done" =>
    /\ failed = Cardinality(hit_error)
    /\ skipped = Cardinality({i \in 1..Len(files0) :
                                i \notin hit_error /\ i \notin returned_true})

\* C11: backfill_file returns True (the file is counted as backfilled) only
\* if the comments of the video were fetched from the API without error.
C11_TrueOnlyIfFetched ==
  \A i \in returned_true : i \notin fetch_failed


\* ==========================================================================
\* youtube_channel_data_collector.py and youtube_video_preference_predictor.py
\* ==========================================================================
DefaultMinDuration == 60        \* --min-duration default
MinDurations == {DefaultMinDuration, 120}
\* --min-duration values of the earlier run that wrote data/<slug>_videos.json
EarlierMinDurations == {0} \cup MinDurations

\* contentDetails.duration of the uploads, an ISO 8601 duration "PnDTnHnMnS"
IsoDuration(v) ==
  IF v % 3 = 1 THEN [d |-> 0, h |-> 0, m |-> 0, s |-> 30]
  ELSE IF v % 3 = 2 THEN [d |-> 0, h |-> 0, m |-> 1, s |-> 30]
  ELSE [d |-> 0, h |-> 1, m |-> 1, s |-> 40]

\* _parse_duration: only the H, M and S groups are matched
parse_duration(duration) ==
  duration.h * 3600 + duration.m * 60 + duration.s

\* line 193: if duration_seconds >= min_duration_seconds
LongEnough(duration_seconds, min_duration_seconds) ==
  duration_seconds >= min_duration_seconds

RECURSIVE SelectLong(_, _, _)
SelectLong(k, v, min_duration_seconds) ==
  IF v > k THEN <<>>
  ELSE LET duration_seconds == parse_duration(IsoDuration(v))
           rest == SelectLong(k, v + 1, min_duration_seconds)
       IN IF LongEnough(duration_seconds, min_duration_seconds)
            THEN <<[video_id |-> v, duration_seconds |-> duration_seconds]>>
                 \o rest
            ELSE rest

\* YouTubeDataCollector.fetch_channel_videos: every result the call can give
\* for a channel with k uploads; a missing channel or an HttpError on the
\* first page gives the empty list
fetch_channel_videos(k, min_duration_seconds) ==
  {<<>>, SelectLong(k, 1, min_duration_seconds)}

\* YouTubeAnalytics.fetch_channel_videos of the predictor: no duration filter
PredictorFetchChannelVideos(k) ==
  {<<>>, [v \in 1..k |-> [video_id |-> v]]}

\* "if not args.skip_...:" replaced by a test that ignores the flag
RunsStepAlways(skip) == TRUE

\* "if not args.skip_...:" of lines 651, 658, 665 (predictor 463, 470, 477)
RunsStep(skip) == ~skip

\* "if transcript:" of line 367 replaced by a test that is always true
HasTextAlways(transcript) == TRUE

\* "if transcript:" of line 367 (predictor 232)
HasText(transcript) == transcript = "text"

\* what fetch_transcript can return: a text, the empty text, None
TranscriptResults == {"text", "empty", "None"}

VideoIds(list) == {list[i].video_id : i \in 1..Len(list)}

InitCollector ==
  /\ audio_dir_exists = TRUE
  /\ transcript_dir_exists = TRUE
  /\ transcriptDir = {}
  /\ CleanupIdle
  /\ BatchIdle
  /\ GetCommentsIdle
  /\ BackfillIdle
  /\ DenoiserIdle
  /\ co_prog \in {"collector", "predictor"}
  /\ co_uploads \in 0..NumCoVideos
  /\ \E skips \in [{"t", "s", "c"} -> BOOLEAN], w \in 1..MaxWorkers :
       IF co_prog = "collector"
         THEN \E D \in MinDurations, force \in BOOLEAN :
                co_args = [min_duration |-> D, force_refresh |-> force,
                           skip_transcripts |-> skips["t"],
                           skip_stats |-> skips["s"],
                           skip_comments |-> skips["c"], max_workers |-> w]
         ELSE co_args = [min_duration |-> 0, force_refresh |-> FALSE,
                         skip_transcripts |-> skips["t"],
                         skip_stats |-> skips["s"],
                         skip_comments |-> skips["c"], max_workers |-> w]
  /\ IF co_prog = "collector"
       THEN \/ co_videos_file = [kind |-> "missing", list |-> <<>>]
            \/ co_videos_file = [kind |-> "invalid", list |-> <<>>]
            \/ \E D0 \in EarlierMinDurations :
                 co_videos_file =
                   [kind |-> "list", list |-> SelectLong(co_uploads, 1, D0)]
       ELSE co_videos_file = [kind |-> "missing", list |-> <<>>]
  /\ co_pc = "start"
  /\ co_videos = <<>>
  /\ co_i = 0
  /\ t_fut = [v \in CoVideos |-> "none"]
  /\ t_res = [v \in CoVideos |-> "none"]
  /\ t_completed = 0
  /\ co_transcript_files = {}
  /\ co_stats_files = {}
  /\ co_comments_files = {}
  /\ co_exit = -1
  /\ co_log = <<>>
  /\ co_api_calls = {}
  /\ co_source = "none"
  /\ t_handled = [v \in CoVideos |-> 0]
  /\ t_reordered = FALSE

notCollector == <<fsVars, clVars, batchVars, gcVars, bfVars, dnVars>>
coInput == <<co_prog, co_args, co_uploads>>
poolVars == <<t_fut, t_res, t_completed, t_handled, t_reordered>>
coFiles == <<co_transcript_files, co_stats_files, co_comments_files>>

\* collector lines 587-612, predictor lines 432-450: no API key or no channel
\* id ends the run with status 1
CoBegin ==
  /\ co_pc = "start"
  /\ \E ok \in BOOLEAN :
       IF ok THEN /\ co_pc' = "step1"
                  /\ UNCHANGED co_exit
             ELSE /\ co_pc' = "exited"
                  /\ co_exit' = 1
  /\ UNCHANGED <<notCollector, coInput, co_videos_file, co_videos, co_i,
                 poolVars, coFiles, co_log, co_api_calls, co_source>>

\* sys.exit(1) of lines 643, 648 (predictor 458)
CoExitEmpty ==
  /\ co_pc' = "exited"
  /\ co_exit' = 1

\* collector lines 618-648, predictor lines 453-462: step 1, the video list
CoVideoList ==
  /\ co_pc = "step1"
  /\ IF co_prog = "predictor"
       THEN \E fetched \in PredictorFetchChannelVideos(co_uploads) :
              /\ co_videos' = fetched
              /\ co_source' = "api"
              /\ IF fetched = <<>>
                   THEN /\ CoExitEmpty
                        /\ co_log' = co_log \o <<"videos">>
                        /\ UNCHANGED co_videos_file
                   ELSE /\ co_videos_file' = [kind |-> "list", list |-> fetched]
                        /\ co_pc' = "step2"
                        /\ co_log' = co_log \o <<"videos", "videos_end">>
                        /\ UNCHANGED co_exit
     ELSE IF co_videos_file.kind # "missing" /\ ~co_args.force_refresh
       THEN IF co_videos_file.kind = "list"
              THEN \* lines 625-630: the list of the file is used as it is
                   /\ co_videos' = co_videos_file.list
                   /\ co_source' = "file"
                   /\ UNCHANGED co_videos_file
                   /\ IF co_videos_file.list = <<>>
                        THEN /\ CoExitEmpty
                             /\ co_log' = co_log \o <<"videos">>
                        ELSE /\ co_pc' = "step2"
                             /\ co_log' = co_log \o <<"videos", "videos_end">>
                             /\ UNCHANGED co_exit
              ELSE \* lines 631-635: json.load raised, fetch and save
                   \E fetched \in
                        fetch_channel_videos(co_uploads, co_args.min_duration) :
                     /\ co_videos' = fetched
                     /\ co_source' = "api"
                     /\ co_videos_file' = [kind |-> "list", list |-> fetched]
                     /\ IF fetched = <<>>
                          THEN /\ CoExitEmpty
                               /\ co_log' = co_log \o <<"videos">>
                          ELSE /\ co_pc' = "step2"
                               /\ co_log' = co_log \o <<"videos", "videos_end">>
                               /\ UNCHANGED co_exit
     ELSE \* lines 636-644
          \E fetched \in
               fetch_channel_videos(co_uploads, co_args.min_duration) :
            /\ co_videos' = fetched
            /\ co_source' = "api"
            /\ IF fetched = <<>>
                 THEN /\ CoExitEmpty
                      /\ co_log' = co_log \o <<"videos">>
                      /\ UNCHANGED co_videos_file
                 ELSE /\ co_videos_file' = [kind |-> "list", list |-> fetched]
                      /\ co_pc' = "step2"
                      /\ co_log' = co_log \o <<"videos", "videos_end">>
                      /\ UNCHANGED co_exit
  /\ UNCHANGED <<notCollector, coInput, co_i, poolVars, coFiles, co_api_calls>>

\* lines 650-654 and fetch_transcripts_parallel lines 343-357: step 2 begins,
\* every video is submitted to the thread pool
CoTranscriptsBegin ==
  /\ co_pc = "step2"
  /\ IF RunsStep(co_args.skip_transcripts)
       THEN /\ co_log' = co_log \o <<"transcripts">>
            /\ t_fut' = [v \in CoVideos |->
                           IF v \in VideoIds(co_videos) THEN "queued"
                                                        ELSE "none"]
            /\ t_completed' = 0
            /\ co_pc' = "as_completed"
       ELSE /\ co_pc' = "step3"
            /\ UNCHANGED <<co_log, t_fut, t_completed>>
  /\ UNCHANGED <<notCollector, coInput, co_videos_file, co_videos, co_i,
                 t_res, t_handled, t_reordered, coFiles, co_exit, co_api_calls,
                 co_source>>

TRunning == {v \in CoVideos : t_fut[v] = "running"}
TQueued == {v \in CoVideos : t_fut[v] = "queued"}

\* a pool thread takes the oldest queued call of fetch_transcript
TWorkerStart ==
  /\ TQueued # {}
  /\ Cardinality(TRunning) < co_args.max_workers
  /\ LET v == MinOf(TQueued) IN
       /\ t_fut' = [t_fut EXCEPT ![v] = "running"]
       /\ co_api_calls' = co_api_calls \cup {<<"transcripts", v>>}
  /\ UNCHANGED <<notCollector, coInput, co_videos_file, co_pc, co_videos,
                 co_i, t_res, t_completed, t_handled, t_reordered, coFiles,
                 co_exit, co_log, co_source>>

\* fetch_transcript lines 305-334 returns: the text, or None after an exception
TWorkerFinish ==
  /\ \E v \in TRunning, r \in TranscriptResults :
       /\ t_fut' = [t_fut EXCEPT ![v] = "done"]
       /\ t_res' = [t_res EXCEPT ![v] = r]
  /\ UNCHANGED <<notCollector, coInput, co_videos_file, co_pc, co_videos,
                 co_i, t_completed, t_handled, t_reordered, coFiles, co_exit,
                 co_log, co_api_calls, co_source>>

\* lines 360-378: one iteration of "for future in as_completed(...)"
CoTranscriptCollect ==
  /\ co_pc = "as_completed"
  /\ \E v \in CoVideos :
       /\ t_fut[v] = "done"
       /\ t_handled[v] = 0
       /\ t_completed' = t_completed + 1
       /\ t_handled' = [t_handled EXCEPT ![v] = @ + 1]
       /\ t_reordered' = (t_reordered \/ \E u \in 1..(v - 1) :
                            t_fut[u] # "none" /\ t_handled[u] = 0)
       /\ co_transcript_files' =
            IF HasText(t_res[v]) THEN co_transcript_files \cup {v}
                                 ELSE co_transcript_files
  /\ UNCHANGED <<notCollector, coInput, co_videos_file, co_pc, co_videos,
                 co_i, t_fut, t_res, co_stats_files,
                 co_comments_files, co_exit, co_log, co_api_calls, co_source>>

\* line 380: as_completed is exhausted, the pool is shut down, the
\* function returns
CoTranscriptsEnd ==
  /\ co_pc = "as_completed"
  /\ \A v \in VideoIds(co_videos) : t_fut[v] = "done" /\ t_handled[v] > 0
  /\ co_log' = co_log \o <<"transcripts_end">>
  /\ co_pc' = "step3"
  /\ UNCHANGED <<notCollector, coInput, co_videos_file, co_videos, co_i,
                 poolVars, coFiles, co_exit, co_api_calls, co_source>>

\* lines 657-661 and fetch_all_video_stats lines 422-425: step 3 begins
CoStatsBegin ==
  /\ co_pc = "step3"
  /\ IF RunsStep(co_args.skip_stats)
       THEN /\ co_log' = co_log \o <<"stats">>
            /\ co_i' = 1
            /\ co_pc' = "stats_loop"
       ELSE /\ co_pc' = "step4"
            /\ UNCHANGED <<co_log, co_i>>
  /\ UNCHANGED <<notCollector, coInput, co_videos_file, co_videos, poolVars,
                 coFiles, co_exit, co_api_calls, co_source>>

\* fetch_all_video_stats lines 427-438: one video; the file is written when
\* fetch_video_stats found the video
CoStatsOne ==
  /\ co_pc = "stats_loop"
  /\ co_i <= Len(co_videos)
  /\ LET v == co_videos[co_i].video_id IN
       /\ co_api_calls' = co_api_calls \cup {<<"stats", v>>}
       /\ \E found \in BOOLEAN :
            co_stats_files' = IF found THEN co_stats_files \cup {v}
                                       ELSE co_stats_files
  /\ co_i' = co_i + 1
  /\ UNCHANGED <<notCollector, coInput, co_videos_file, co_pc, co_videos,
                 poolVars, co_transcript_files, co_comments_files, co_exit,
                 co_log, co_source>>

\* fetch_all_video_stats line 440: the loop is exhausted
CoStatsEnd ==
  /\ co_pc = "stats_loop"
  /\ co_i > Len(co_videos)
  /\ co_log' = co_log \o <<"stats_end">>
  /\ co_pc' = "step4"
  /\ UNCHANGED <<notCollector, coInput, co_videos_file, co_videos, co_i,
                 poolVars, coFiles, co_exit, co_api_calls, co_source>>

\* lines 664-668 and fetch_all_comments lines 509-512: step 4 begins
CoCommentsBegin ==
  /\ co_pc = "step4"
  /\ IF RunsStep(co_args.skip_comments)
       THEN /\ co_log' = co_log \o <<"comments">>
            /\ co_i' = 1
            /\ co_pc' = "comments_loop"
            /\ UNCHANGED co_exit
       ELSE /\ co_pc' = "exited"
            /\ co_exit' = 0
            /\ UNCHANGED <<co_log, co_i>>
  /\ UNCHANGED <<notCollector, coInput, co_videos_file, co_videos, poolVars,
                 coFiles, co_api_calls, co_source>>

\* fetch_all_comments lines 514-526: one video; the file is always written
CoCommentsOne ==
  /\ co_pc = "comments_loop"
  /\ co_i <= Len(co_videos)
  /\ LET v == co_videos[co_i].video_id IN
       /\ co_api_calls' = co_api_calls \cup {<<"comments", v>>}
       /\ co_comments_files' = co_comments_files \cup {v}
  /\ co_i' = co_i + 1
  /\ UNCHANGED <<notCollector, coInput, co_videos_file, co_pc, co_videos,
                 poolVars, co_transcript_files, co_stats_files, co_exit,
                 co_log, co_source>>

\* fetch_all_comments line 528 and main lines 670-675: the run ends
CoCommentsEnd ==
  /\ co_pc = "comments_loop"
  /\ co_i > Len(co_videos)
  /\ co_log' = co_log \o <<"comments_end">>
  /\ co_pc' = "exited"
  /\ co_exit' = 0
  /\ UNCHANGED <<notCollector, coInput, co_videos_file, co_videos, co_i,
                 poolVars, coFiles, co_api_calls, co_source>>

NextCollector ==
  \/ CoBegin
  \/ CoVideoList
  \/ CoTranscriptsBegin
  \/ TWorkerStart
  \/ TWorkerFinish
  \/ CoTranscriptCollect
  \/ CoTranscriptsEnd
  \/ CoStatsBegin
  \/ CoStatsOne
  \/ CoStatsEnd
  \/ CoCommentsBegin
  \/ CoCommentsOne
  \/ CoCommentsEnd

SpecCollector == InitCollector /\ [][NextCollector]_vars

\* ------------------------------------------------- claims on the collector
InLog(e) == \E i \in 1..Len(co_log) : co_log[i] = e
CollectedIds == {c[2] : c \in co_api_calls}

\* C12: in a run of the collector with --min-duration D every video for which
\* transcripts, stats or comments are collected has duration_seconds >= D,
\* whether the list came from the API or from data/<slug>_videos.json.
C12_CollectedLongEnough ==
  co_prog = "collector" =>
    \A i \in 1..Len(co_videos) :
      co_videos[i].video_id \in CollectedIds =>
        co_videos[i].duration_seconds >= co_args.min_duration

StepOrder == <<"videos", "videos_end", "transcripts", "transcripts_end",
               "stats", "stats_end", "comments", "comments_end">>
StepPos(e) == CHOOSE i \in 1..Len(StepOrder) : StepOrder[i] = e
StepBegins == {"transcripts", "stats", "comments"}
StepEnds == {"videos_end", "transcripts_end", "stats_end"}
StepFiles(step) ==
  IF step = "transcripts" THEN co_transcript_files
  ELSE IF step = "stats" THEN co_stats_files
  ELSE co_comments_files
StepSkipped(step) ==
  IF step = "transcripts" THEN co_args.skip_transcripts
  ELSE IF step = "stats" THEN co_args.skip_stats
  ELSE co_args.skip_comments

C13_StepState ==
  \* the fixed order, every step at most once
  /\ \A i, j \in 1..Len(co_log) :
       i < j => StepPos(co_log[i]) < StepPos(co_log[j])
  \* a step begins only when everything begun before it has ended
  /\ \A i \in 1..Len(co_log) :
       co_log[i] \in StepBegins => co_log[i - 1] \in StepEnds
  \* the pool works only inside step 2
  /\ (\E v \in CoVideos : t_fut[v] \in {"queued", "running"})
       => co_log[Len(co_log)] = "transcripts"
  \* a skipped step calls no API and writes no file
  /\ \A step \in StepBegins :
       StepSkipped(step) =>
         /\ ~InLog(step)
         /\ StepFiles(step) = {}
         /\ \A v \in CoVideos : <<step, v>> \notin co_api_calls
  \* an empty video list: exit 1, none of the steps 2-4 starts
  /\ (InLog("videos") /\ co_videos = <<>>) =>
       /\ co_pc = "exited" /\ co_exit = 1
       /\ \A step \in StepBegins : ~InLog(step)
       /\ co_api_calls = {}
       /\ \A step \in StepBegins : StepFiles(step) = {}

C13_StepAction ==
  \* the API calls and the file writes of a step happen inside that step
  /\ \A c \in co_api_calls' \ co_api_calls :
       co_log # <<>> /\ co_log[Len(co_log)] = c[1]
  /\ \A step \in StepBegins :
       StepFiles(step)' # StepFiles(step) =>
         co_log # <<>> /\ co_log[Len(co_log)] = step

\* C13: main runs its steps in the order video list, transcripts, stats,
\* comments, each at most once and each starting after the previous one has
\* finished; a step whose skip flag is set calls no API and writes no file;
\* with an empty video list none of the steps 2-4 starts and the exit status
\* is 1.
C13_StepsInOrder == []C13_StepState /\ [][C13_StepAction]_vars

\* a complete run that skipped the stats and did the other steps
C13_Witness ==
  /\ co_exit = 0
  /\ co_args.skip_stats /\ ~co_args.skip_transcripts /\ ~co_args.skip_comments
  /\ Len(co_videos) >= 2
  /\ co_log = <<"videos", "videos_end", "transcripts", "transcripts_end",
                "comments", "comments_end">>
  /\ co_comments_files = VideoIds(co_videos)

Dashes ==
  "--------------------------------------------------------------------------------"
MetadataLines == 10         \* "i < 10" of line 123
MetadataKeys == {"Video ID", "Title", "Model", "Duration"}
Whitespace == {" ", "\n"}
WordTokens == {"w1", "w2", "abc", "whisper-small", "FILLER"} \cup MetadataKeys

Contains(line, token) == \E i \in 1..Len(line) : line[i] = token

\* str.strip() of a line
RECURSIVE LStrip(_)
LStrip(line) ==
  IF line # <<>> /\ Head(line) \in Whitespace THEN LStrip(Tail(line)) ELSE line
RECURSIVE RStrip(_)
RStrip(line) ==
  IF line # <<>> /\ line[Len(line)] \in Whitespace
    THEN RStrip(SubSeq(line, 1, Len(line) - 1))
    ELSE line
Strip(line) == RStrip(LStrip(line))

\* line.strip() == '-' * len(line.strip())
IsDashes(line) ==
  \A i \in 1..Len(Strip(line)) : Strip(line)[i] \in {"-", Dashes}

\* '\n'.join(lines) as a text: joining no line gives the empty text
JoinLines(lines) == IF lines = <<>> THEN << <<>> >> ELSE lines

\* the loop of lines 121-130; i is the 0-based index of enumerate
RECURSIVE MetadataLoop(_, _, _, _)
MetadataLoop(lines, i, metadata_lines, content_start) ==
  IF i >= Len(lines)
    THEN [metadata_lines |-> metadata_lines, content_start |-> content_start]
  ELSE LET line == lines[i + 1] IN
    IF Contains(line, ":") /\ i < MetadataLines
      THEN IF \E key \in MetadataKeys : Contains(line, key)
             THEN MetadataLoop(lines, i + 1, Append(metadata_lines, line),
                               i + 1)
           ELSE IF IsDashes(line)
             THEN [metadata_lines |-> Append(metadata_lines, line),
                   content_start |-> i + 1]
           ELSE MetadataLoop(lines, i + 1, metadata_lines, content_start)
      ELSE MetadataLoop(lines, i + 1, metadata_lines, content_start)

\* preserve_metadata, lines 112-135; has_metadata is the truth value of the
\* metadata string
preserve_metadata(text) ==
  LET r == MetadataLoop(text, 0, <<>>, 0) IN
  [metadata |-> JoinLines(r.metadata_lines),
   has_metadata |-> r.metadata_lines # <<>>,
   content |-> JoinLines(SubSeq(text, r.content_start + 1, Len(text)))]

\* a text as one token sequence, "\n" between the lines
RECURSIVE Flatten(_)
Flatten(text) ==
  IF Len(text) = 1 THEN text[1]
  ELSE text[1] \o <<"\n">> \o Flatten(Tail(text))

\* the tokens of s after its leading whitespace
RECURSIVE SkipSpace(_)
SkipSpace(s) ==
  IF s # <<>> /\ Head(s) \in Whitespace THEN SkipSpace(Tail(s)) ELSE s

\* remove_repeated_words, line 32: a word followed by one or more
\* repetitions of itself, whitespace between them, becomes the word
RECURSIVE remove_repeated_words(_)
remove_repeated_words(s) ==
  IF s = <<>> THEN <<>>
  ELSE LET rest == SkipSpace(Tail(s)) IN
    IF /\ Head(s) \in WordTokens
       /\ rest # Tail(s)
       /\ rest # <<>>
       /\ Head(rest) = Head(s)
      THEN remove_repeated_words(rest)
      ELSE <<Head(s)>> \o remove_repeated_words(Tail(s))

\* remove_noise_patterns, lines 86-87: bracketed noise marks are dropped
remove_noise_patterns(s) == SelectSeq(s, LAMBDA t : t # "[noise]")

\* re.sub(r'\s+', ' ', text) of lines 72 and 101
RECURSIVE CollapseSpace(_)
CollapseSpace(s) ==
  IF s = <<>> THEN <<>>
  ELSE IF Head(s) \in Whitespace
    THEN <<" ">> \o CollapseSpace(SkipSpace(s))
    ELSE <<Head(s)>> \o CollapseSpace(Tail(s))

\* normalize_spacing, lines 96-109
normalize_spacing(s) == Strip(CollapseSpace(s))

\* lines 162-169: a filler word and the whitespace after it are dropped
RECURSIVE RemoveFillers(_)
RemoveFillers(s) ==
  IF s = <<>> THEN <<>>
  ELSE IF Head(s) = "FILLER" /\ Len(s) > 1 /\ s[2] \in Whitespace
    THEN RemoveFillers(SkipSpace(Tail(s)))
    ELSE <<Head(s)>> \o RemoveFillers(Tail(s))

\* lines 153-169: the pipeline applied to the content. The substitutions for
\* interjections, doubled fillers, stuttering, timestamps and punctuation
\* match nothing that is made of the tokens above.
Substitute(content, aggressive) ==
  LET c == normalize_spacing(CollapseSpace(remove_noise_patterns(
             remove_repeated_words(Flatten(content)))))
  IN IF aggressive THEN normalize_spacing(RemoveFillers(c)) ELSE c

\* denoise_transcript, lines 138-175
denoise_transcript(text, aggressive) ==
  LET pm == preserve_metadata(text)
      content == Substitute(pm.content, aggressive)
  IN IF pm.has_metadata THEN pm.metadata \o << <<>> >> \o <<content>>
                        ELSE <<content>>

\* ---- the file written by test_whisper_single_video, stt_whisper.py 117-123
Separator == <<Dashes>>
WhisperHeader(title) ==
  << <<"Video ID", ":", " ", "abc">>,
     <<"Title", ":", " ">> \o title,
     <<"Model", ":", " ", "whisper-small">> >>
WhisperFile(title, transcript) ==
  WhisperHeader(title) \o <<Separator, <<>>>> \o transcript

Titles == { <<"w1">>, <<"w1", " ", "w2">> }
Transcripts ==
  { << <<"w1", " ", "w2">> >>,
    << <<"w1", " ", "w1", " ", "w2">> >>,
    << <<"w1", " ", "[noise]", " ", "w2">> >>,
    << <<"FILLER", " ", "w1">>, <<"w2">> >>,
    << <<"w1">>, <<"Title", ":", " ", "w2">>, <<"w2">> >>,
    << <<>> >> }
Texts ==
  {WhisperFile(title, transcript) : title \in Titles,
                                    transcript \in Transcripts}
  \cup Transcripts

\* ---- paths
PathTokens == {"a", "txt", "_denoised", ".", "/"}
Paths == UNION {[1..n -> PathTokens] : n \in 1..MaxPathLen}

\* the largest index of token in p, 0 if there is none: str.rfind
RFind(p, token) ==
  LET S == {i \in 1..Len(p) : p[i] = token}
  IN IF S = {} THEN 0 ELSE CHOOSE i \in S : \A j \in S : j <= i

\* os.path.splitext(p)[0]: the extension begins at the last dot of the last
\* component, leading dots of the component are not an extension
SplitextBase(p) ==
  LET sepIndex == RFind(p, "/")
      dotIndex == RFind(p, ".")
  IN IF /\ dotIndex > sepIndex
        /\ \E k \in (sepIndex + 1)..(dotIndex - 1) : p[k] # "."
       THEN SubSeq(p, 1, dotIndex - 1)
       ELSE p

\* lines 201-202 replaced by writing the result over the input
OutputFileInPlace(input_file) == input_file

\* lines 201-202: f"{base_name}_denoised.txt"
OutputFile(input_file) ==
  SplitextBase(input_file) \o <<"_denoised", ".", "txt">>

\* open(path, 'w') and write: the file holds exactly the text
WriteFile(fs, path, text) ==
  {e \in fs : e[1] # path} \cup {<<path, text>>}

FileAt(fs, path) == {e \in fs : e[1] = path}

OldText == << <<"w2", " ", "w2">> >>
EmptyText == << <<>> >>

InitDenoiser ==
  /\ audio_dir_exists = TRUE
  /\ transcript_dir_exists = TRUE
  /\ transcriptDir = {}
  /\ CleanupIdle
  /\ BatchIdle
  /\ GetCommentsIdle
  /\ BackfillIdle
  /\ CollectorIdle
  /\ dn_input_file \in Paths
  /\ dn_aggressive \in BOOLEAN
  /\ \E input \in {<<>>} \cup {<<t>> : t \in Texts},
        output \in {<<>>, <<OldText>>} :
       dn_fs = {<<dn_input_file, input[i]>> : i \in 1..Len(input)}
               \cup {<<OutputFile(dn_input_file), output[i]>> :
                       i \in 1..Len(output)}
  /\ dn_pc = "start"
  /\ dn_original_text = EmptyText
  /\ dn_denoised_text = EmptyText
  /\ dn_ret = [kind |-> "running", path |-> <<>>]
  /\ dn_fs0 = dn_fs
  /\ dn_fail = "none"

notDenoiser == <<fsVars, clVars, batchVars, gcVars, bfVars, coVars>>

\* process_file lines 183-188: the input is read; open or read may raise
DenoiserRead ==
  /\ dn_pc = "start"
  /\ \/ \E e \in FileAt(dn_fs, dn_input_file) :
          /\ dn_original_text' = e[2]
          /\ dn_pc' = "denoise"
          /\ UNCHANGED <<dn_ret, dn_fail>>
     \/ /\ dn_ret' = [kind |-> "None", path |-> <<>>]
        /\ dn_fail' = "read"
        /\ dn_pc' = "done"
        /\ UNCHANGED dn_original_text
  /\ UNCHANGED <<notDenoiser, dn_fs, dn_input_file, dn_aggressive,
                 dn_denoised_text, dn_fs0>>

\* process_file line 197
DenoiserDenoise ==
  /\ dn_pc = "denoise"
  /\ dn_denoised_text' = denoise_transcript(dn_original_text, dn_aggressive)
  /\ dn_pc' = "write"
  /\ UNCHANGED <<notDenoiser, dn_fs, dn_input_file, dn_aggressive,
                 dn_original_text, dn_ret, dn_fs0, dn_fail>>

\* process_file lines 201-210 and 236: the result is saved; open may raise
\* before the file is touched, write may raise after open truncated it
DenoiserWrite ==
  /\ dn_pc = "write"
  /\ LET output_file == OutputFile(dn_input_file) IN
       \/ /\ dn_fs' = WriteFile(dn_fs, output_file, dn_denoised_text)
          /\ dn_ret' = [kind |-> "path", path |-> output_file]
          /\ UNCHANGED dn_fail
       \/ /\ dn_fail' = "open"
          /\ dn_ret' = [kind |-> "None", path |-> <<>>]
          /\ UNCHANGED dn_fs
       \/ /\ dn_fail' = "write"
          /\ dn_ret' = [kind |-> "None", path |-> <<>>]
          /\ dn_fs' = WriteFile(dn_fs, output_file, EmptyText)
  /\ dn_pc' = "done"
  /\ UNCHANGED <<notDenoiser, dn_input_file, dn_aggressive, dn_original_text,
                 dn_denoised_text, dn_fs0>>

NextDenoiser == DenoiserRead \/ DenoiserDenoise \/ DenoiserWrite

SpecDenoiser == InitDenoiser /\ [][NextDenoiser]_vars

\* C14: process_file writes its result to "<input without extension>
\* _denoised.txt" and never modifies the input file; when the input cannot
\* be read it returns None and no file is created or changed; when the
\* output cannot be written it returns None.
C14_ProcessFileFrame ==
  LET output_file == SplitextBase(dn_input_file) \o <<"_denoised", ".", "txt">>
  IN /\ FileAt(dn_fs, dn_input_file) = FileAt(dn_fs0, dn_input_file)
     /\ \A e \in dn_fs : e[1] # output_file => e \in dn_fs0
     /\ \A e \in dn_fs0 : e[1] # output_file => e \in dn_fs
     /\ dn_fail = "read" => dn_ret.kind = "None" /\ dn_fs = dn_fs0
     /\ dn_fail \in {"open", "write"} => dn_ret.kind = "None"
     /\ dn_ret.kind = "path" =>
          /\ dn_ret.path = output_file
          /\ FileAt(dn_fs, output_file) = {<<output_file, dn_denoised_text>>}
     /\ (dn_pc = "done" /\ dn_fail = "none") => dn_ret.kind = "path"

\* a file with an extension was denoised into a changed text, the output
\* replaced an older one and the input is still what it was
C14_Witness ==
  /\ dn_pc = "done"
  /\ dn_ret.kind = "path"
  /\ dn_ret.path # dn_input_file \o <<"_denoised", ".", "txt">>
  /\ dn_denoised_text # dn_original_text
  /\ <<dn_input_file, dn_original_text>> \in dn_fs
  /\ <<dn_ret.path, OldText>> \in dn_fs0
  /\ <<dn_ret.path, dn_denoised_text>> \in dn_fs

\* C15: for a file in the format test_whisper_single_video writes,
\* preserve_metadata gives the three header lines and the dashed line as
\* metadata and the transcript text alone as content, and denoise_transcript
\* returns the header unchanged followed by the substituted transcript text.
C15_HeaderPreserved ==
  \A title \in Titles, transcript \in Transcripts :
    (dn_pc \in {"write", "done"}
       /\ dn_original_text = WhisperFile(title, transcript)) =>
      LET pm == preserve_metadata(dn_original_text)
          header == WhisperHeader(title) \o <<Separator>>
      IN /\ pm.metadata = header
         /\ pm.content \in {transcript, << <<>> >> \o transcript}
         /\ SubSeq(dn_denoised_text, 1, Len(header)) = header
         /\ dn_denoised_text[Len(dn_denoised_text)]
              = Substitute(transcript, dn_aggressive)
====
